---- MODULE Spec2Model ----
(***************************************************************************)
(* The Playwright test model of the VS Code extension (TestModel,          *)
(* TestProject, TestFile): projects and files reconciled against full      *)
(* discovery (listFiles), targeted re-parse (listTests), live run          *)
(* ingestion (updateFromRunningProjects) and file system changes           *)
(* (workspaceChanged).                                                     *)
(*                                                                         *)
(* Every async method is cut at its awaits: one action per synchronous     *)
(* stretch of code.  calls[t] is the call stack of the in-flight call t,   *)
(* the callee on top.  `last` is a history variable: what the step just    *)
(* taken was, its inputs, the projects before it and the number of         *)
(* _didUpdate.fire() calls it made; `made` counts the calls the caller has  *)
(* made.                                                                   *)
(***************************************************************************)
EXTENDS Integers, Sequences, FiniteSets, TLC

VARIABLES projects, testIdAttributeName, fileToSources, calls, last, made

vars == <<projects, testIdAttributeName, fileToSources, calls, last, made>>

(***************************************************************************)
(* Bounds and input domains                                                *)
(***************************************************************************)
\* setEntries is not called on a File whose revision has reached MaxRevision
MaxRevision == 2
\* the caller makes at most MaxCalls calls of the model's methods
MaxCalls == 4
\* number of call slots; Spec keeps one call in flight at a time
NumTasks == 2

Tasks == 1..NumTasks

ProjectNames == {"A", "B"}

\* test files; "/t/y.js" is an emitted file whose source map names "/t/y.ts"
FileX == "/t/x.ts"
FileY == "/t/y.ts"
EmittedY == "/t/y.js"
Paths == {FileX, FileY}

\* the testDir the configuration gives each project
TestDirOf(name) == IF name = "A" THEN "/t" ELSE "/u"

\* strings as the characters startsWith compares
Chars(s) ==
  CASE s = FileX -> <<"/", "t", "/", "x", ".", "t", "s">>
    [] s = FileY -> <<"/", "t", "/", "y", ".", "t", "s">>
    [] s = EmittedY -> <<"/", "t", "/", "y", ".", "j", "s">>
    [] s = "/t" -> <<"/", "t">>
    [] s = "/u" -> <<"/", "u">>
    [] s = "/u2/n.ts" -> <<"/", "u", "2", "/", "n", ".", "t", "s">>
    [] s = "/w/n.ts" -> <<"/", "w", "/", "n", ".", "t", "s">>

(***************************************************************************)
(* TestFile                                                                *)
(***************************************************************************)
\* _entries: TestEntry[] | undefined
Undefined == [defined |-> FALSE, list |-> <<>>]
Defined(list) == [defined |-> TRUE, list |-> list]

\* a File starts parsed and empty
TestFileParsedEmpty(project, file) ==
  [project |-> project, file |-> file, entries |-> Defined(<<>>), revision |-> 0]

\* new TestFile(project, file): _entries undefined, _revision 0
TestFile(project, file) ==
  [project |-> project, file |-> file, entries |-> Undefined, revision |-> 0]

\* entries equal to the present ones are not a change
setEntriesIfChanged(testFile, list) ==
  IF testFile.entries = Defined(list) THEN testFile
  ELSE [testFile EXCEPT !.revision = @ + 1, !.entries = Defined(list)]

\* the revision counts replacements: the first entries do not raise it
setEntriesCountsReplacements(testFile, list) ==
  [testFile EXCEPT !.revision = IF testFile.entries.defined THEN @ + 1 ELSE @,
                   !.entries = Defined(list)]

\* lines 51-54
setEntries(testFile, list) ==
  [testFile EXCEPT !.revision = @ + 1, !.entries = Defined(list)]

\* an empty array taken for falsy
HasEntriesNonEmpty(testFile) == testFile.entries.defined /\ testFile.entries.list # <<>>

\* !testFile.entries(): undefined is falsy, every array (also []) is truthy
HasEntries(testFile) == testFile.entries.defined

(***************************************************************************)
(* Suites of the reporter API                                              *)
(***************************************************************************)
TestCase(title) == [kind |-> "test", title |-> title, tests |-> <<>>]
\* a describe block with its direct tests
Describe(title, tests) == [kind |-> "suite", title |-> title, tests |-> tests]

FileSuite(file, suites, tests) == [file |-> file, suites |-> suites, tests |-> tests]

RECURSIVE CountTests(_)
CountTests(suites) ==
  IF suites = <<>> THEN 0 ELSE Len(Head(suites).tests) + CountTests(Tail(suites))

\* the entries of the suite counted instead of its tests
AllTestsLengthCountsEntries(fileSuite) == Len(fileSuite.tests) + Len(fileSuite.suites)

\* fileSuite.allTests().length: the tests of the suite and of its descendants
AllTestsLength(fileSuite) == Len(fileSuite.tests) + CountTests(fileSuite.suites)

\* the direct tests first
SuiteEntriesTestsFirst(fileSuite) == fileSuite.tests \o fileSuite.suites

\* [...fileSuite.suites, ...fileSuite.tests]
SuiteEntries(fileSuite) == fileSuite.suites \o fileSuite.tests

(***************************************************************************)
(* Source maps                                                             *)
(***************************************************************************)
Range(seq) == {seq[k] : k \in 1..Len(seq)}

\* the sources the source map of an emitted file names, <<>> without a map
SourceMapOf(file) == IF file = EmittedY THEN <<FileY>> ELSE <<>>

\* resolveSourceMap(file, fileToSources, sourceToFile): the sources of file,
\* [file] when no mapping is known
resolveSourceMap(file, cache) ==
  IF file \in DOMAIN cache THEN cache[file]
  ELSE IF SourceMapOf(file) # <<>> THEN SourceMapOf(file)
  ELSE <<file>>

\* the forward cache after resolveSourceMap(file, ...)
CacheAfterResolve(file, cache) ==
  IF file \notin DOMAIN cache /\ SourceMapOf(file) # <<>>
    THEN cache @@ (file :> SourceMapOf(file))
    ELSE cache

_mapFilesToSources(files, cache) ==
  UNION {IF file \in DOMAIN cache THEN Range(cache[file]) ELSE {file} : file \in files}

(***************************************************************************)
(* Call stacks                                                             *)
(***************************************************************************)
Top(stack) == stack[Len(stack)]

\* the bottom frame keeps the bookkeeping of its call (see Called)
ReplaceTop(stack, frame) ==
  [stack EXCEPT ![Len(stack)] =
     IF "started" \in DOMAIN @
       THEN frame @@ [started |-> @.started, overtaken |-> @.overtaken]
       ELSE frame]

IsAt(t, op, pc) ==
  /\ calls[t] # <<>>
  /\ Top(calls[t]).op = op
  /\ Top(calls[t]).pc = pc

\* whether the top frame was called by workspaceChanged
IsNested(stack) == Len(stack) > 1

\* the stack after the top frame returns ret, having fired `fired`
\* notifications: the caller (workspaceChanged) is ready to resume
Return(stack, fired, ret) ==
  IF Len(stack) = 1 THEN <<>>
  ELSE <<[stack[1] EXCEPT !.nestedFired = @ + fired, !.returned = Append(@, ret)]>>

NoCallInFlight == \A t \in Tasks : calls[t] = <<>>

\* The frame of a call the caller makes: `started` numbers the calls in the
\* order they are made, `overtaken` tells that the response of a call made
\* later has been applied while this call was in flight.
Called(frame) == frame @@ [started |-> made + 1, overtaken |-> FALSE]

\* the call stacks once call t has applied its response: the calls in
\* flight that were made before it are overtaken
Overtake(stacks, t) ==
  [u \in Tasks |->
     IF u # t /\ stacks[u] # <<>> /\ stacks[u][1].started < calls[t][1].started
       THEN [stacks[u] EXCEPT ![1].overtaken = TRUE]
       ELSE stacks[u]]

\* a step the call t is suspended at, as the history records it
Suspended == [op |-> "await"]

(***************************************************************************)
(* listFiles                                                               *)
(***************************************************************************)
\* lines 142-151: this._projects.set(name, project) puts the new project in the
\* place of one held under the name
_createProject(projs, projectReport) ==
  (projectReport.name :>
     [name |-> projectReport.name,
      testDir |-> projectReport.testDir,
      files |-> <<>>,
      isEnabled |-> TRUE]) @@ projs

\* the File is filed under its path without its owner being set
_createFileWithoutOwner(project, file) ==
  [project EXCEPT !.files = (file :> TestFile("undefined", file)) @@ @]

\* lines 168-172
_createFile(project, file) ==
  [project EXCEPT !.files = (file :> TestFile(project.name, file)) @@ @]

\* every reported file gets a new File, known or not
CreateFilesAnew(project, files) ==
  [project EXCEPT !.files =
     [file \in DOMAIN @ \cup Range(files) |->
        IF file \in Range(files) THEN TestFile(project.name, file) ELSE @[file]]]

\* lines 155-160
RECURSIVE CreateMissingFiles(_, _)
CreateMissingFiles(project, files) ==
  IF files = <<>> THEN project
  ELSE CreateMissingFiles(
         IF Head(files) \in DOMAIN project.files THEN project
         ELSE _createFile(project, Head(files)),
         Tail(files))

\* stale files are kept
PruneFilesKeepsAll(project, filesToKeep) == project

PruneFiles(project, filesToKeep) ==
  [project EXCEPT !.files = [file \in DOMAIN @ \cap filesToKeep |-> @[file]]]

\* a project that is reported is enabled
_updateProjectEnables(project, projectReport) ==
  [PruneFiles(CreateMissingFiles(project, projectReport.files),
              Range(projectReport.files)) EXCEPT !.isEnabled = TRUE]

\* lines 153-166
_updateProject(project, projectReport) ==
  PruneFiles(CreateMissingFiles(project, projectReport.files),
             Range(projectReport.files))

RECURSIVE ReconcileProjects(_, _)
ReconcileProjects(projs, reports) ==
  IF reports = <<>> THEN projs
  ELSE LET projectReport == Head(reports)
           known == IF projectReport.name \in DOMAIN projs THEN projs
                    ELSE _createProject(projs, projectReport)
       IN ReconcileProjects(
            [known EXCEPT ![projectReport.name] = _updateProject(@, projectReport)],
            Tail(reports))

\* stale projects are kept: a union instead of a reconciliation
PruneProjectsKeepsAll(projs, projectsToKeep) == projs

PruneProjects(projs, projectsToKeep) ==
  [name \in DOMAIN projs \cap projectsToKeep |-> projs[name]]

\* lines 125-137: the synchronous reconciliation of a resolved report
ApplyReport(projs, reports) ==
  PruneProjects(ReconcileProjects(projs, reports),
                {reports[k].name : k \in 1..Len(reports)})

\* The loop of lines 117-123 from the head of iteration i up to its next
\* await: projects without files are passed without suspending.
RECURSIVE RunResolveLoop(_, _, _)
RunResolveLoop(reports, i, attr) ==
  IF i > Len(reports) THEN [done |-> TRUE, reports |-> reports, attr |-> attr]
  ELSE IF reports[i].files = <<>> THEN RunResolveLoop(reports, i + 1, reports[i].use)
  ELSE [done |-> FALSE, reports |-> reports, attr |-> attr, i |-> i]

\* listFiles() up to `await this._playwrightTest.listFiles(this.config)`
ListFilesFrame == [op |-> "listFiles", pc |-> "report"]

ListFilesCall(t) ==
  /\ calls[t] = <<>>
  /\ calls' = [calls EXCEPT ![t] = <<Called(ListFilesFrame)>>]
  /\ last' = Suspended
  /\ UNCHANGED <<projects, testIdAttributeName, fileToSources>>

\* a pass that changes nothing is not notified
ListFilesNotificationsOfChanges(projs, reports) ==
  IF ApplyReport(projs, reports) = projs THEN <<>>
  ELSE <<ApplyReport(projs, reports)>>

\* line 139: the projects the subscribers see at each notification of the pass
ListFilesNotifications(projs, reports) == <<ApplyReport(projs, reports)>>

\* the attribute is taken from the first project of the report
ListFilesFinishFirstAttribute(t, raw, reports, attr, cache) ==
  /\ projects' = ApplyReport(projects, reports)
  /\ testIdAttributeName' = IF reports # <<>> THEN reports[1].use ELSE attr
  /\ fileToSources' = cache
  /\ calls' = Overtake([calls EXCEPT ![t] =
                         Return(@, Len(ListFilesNotifications(projects, reports)),
                                "undefined")], t)
  /\ last' = [op |-> "listFiles", error |-> FALSE, raw |-> raw, reports |-> reports,
              pre |-> projects, preAttr |-> testIdAttributeName,
              nested |-> IsNested(calls[t]), ret |-> "undefined",
              task |-> t, stale |-> calls[t][1].overtaken,
              observed |-> ListFilesNotifications(projects, reports),
              fired |-> Len(ListFilesNotifications(projects, reports))]

\* lines 125-140 once the loop of lines 117-123 is through
ListFilesFinish(t, raw, reports, attr, cache) ==
  /\ projects' = ApplyReport(projects, reports)
  /\ testIdAttributeName' = attr
  /\ fileToSources' = cache
  /\ calls' = Overtake([calls EXCEPT ![t] =
                         Return(@, Len(ListFilesNotifications(projects, reports)),
                                "undefined")], t)
  /\ last' = [op |-> "listFiles", error |-> FALSE, raw |-> raw, reports |-> reports,
              pre |-> projects, preAttr |-> testIdAttributeName,
              nested |-> IsNested(calls[t]), ret |-> "undefined",
              task |-> t, stale |-> calls[t][1].overtaken,
              observed |-> ListFilesNotifications(projects, reports),
              fired |-> Len(ListFilesNotifications(projects, reports))]

\* every project is reconciled as soon as its files are resolved, before the
\* next await
ListFilesAdvanceAppliesAsItGoes(t, raw, reports, i, attr, cache) ==
  LET run == RunResolveLoop(reports, i, attr)
  IN IF run.done THEN ListFilesFinish(t, raw, run.reports, run.attr, cache)
     ELSE /\ calls' = [calls EXCEPT ![t] = ReplaceTop(@,
                         [op |-> "listFiles", pc |-> "resolve", raw |-> raw,
                          reports |-> reports, i |-> run.i, j |-> 1, files |-> <<>>])]
          /\ testIdAttributeName' = run.attr
          /\ fileToSources' = cache
          /\ last' = Suspended
          /\ projects' = ReconcileProjects(projects, SubSeq(reports, 1, run.i - 1))

\* lines 117-123 from the head of iteration i, with the attribute as set so far
ListFilesAdvance(t, raw, reports, i, attr, cache) ==
  LET run == RunResolveLoop(reports, i, attr)
  IN IF run.done THEN ListFilesFinish(t, raw, run.reports, run.attr, cache)
     ELSE /\ calls' = [calls EXCEPT ![t] = ReplaceTop(@,
                         [op |-> "listFiles", pc |-> "resolve", raw |-> raw,
                          reports |-> reports, i |-> run.i, j |-> 1, files |-> <<>>])]
          /\ testIdAttributeName' = run.attr
          /\ fileToSources' = cache
          /\ last' = Suspended
          /\ UNCHANGED projects

\* the early return of lines 113-114 is missing: a failed report is applied
ListFilesReportAppliesError(t, report) ==
  /\ IsAt(t, "listFiles", "report")
  /\ IF report.error # "undefined"
       THEN /\ projects' = ApplyReport(projects, report.projects)
            /\ calls' = [calls EXCEPT ![t] = Return(@, 1, report.error)]
            /\ last' = [op |-> "listFiles", error |-> TRUE, raw |-> report.projects,
                        reports |-> report.projects,
                        pre |-> projects, preAttr |-> testIdAttributeName,
                        nested |-> IsNested(calls[t]), ret |-> report.error,
                        task |-> t, stale |-> calls[t][1].overtaken,
                        observed |-> <<ApplyReport(projects, report.projects)>>,
                        fired |-> 1]
            /\ UNCHANGED <<testIdAttributeName, fileToSources>>
       ELSE ListFilesAdvance(t, report.projects, report.projects, 1,
                             testIdAttributeName, fileToSources)

\* the report arrives: lines 112-114, then on to the first resolveSourceMap
ListFilesReport(t, report) ==
  /\ IsAt(t, "listFiles", "report")
  /\ IF report.error # "undefined"
       THEN /\ calls' = [calls EXCEPT ![t] = Return(@, 0, report.error)]
            /\ last' = [op |-> "listFiles", error |-> TRUE, raw |-> report.projects,
                        reports |-> report.projects,
                        pre |-> projects, preAttr |-> testIdAttributeName,
                        nested |-> IsNested(calls[t]), ret |-> report.error,
                        task |-> t, stale |-> calls[t][1].overtaken,
                        observed |-> <<>>, fired |-> 0]
            /\ UNCHANGED <<projects, testIdAttributeName, fileToSources>>
       ELSE ListFilesAdvance(t, report.projects, report.projects, 1,
                             testIdAttributeName, fileToSources)

\* the file whose resolveSourceMap the listFiles call of task t awaits
AwaitedFile(t) == Top(calls[t]).reports[Top(calls[t]).i].files[Top(calls[t]).j]

\* resolveSourceMap(file, ...), awaited at line 120, has read the source map
\* of the file: it fills the forward cache and returns.  listFiles resumes in
\* a later turn, so that a call made in between finds the cache filled.
ResolveSourceMapReturns(t) ==
  /\ IsAt(t, "listFiles", "resolve")
  /\ CacheAfterResolve(AwaitedFile(t), fileToSources) # fileToSources
  /\ fileToSources' = CacheAfterResolve(AwaitedFile(t), fileToSources)
  /\ last' = Suspended
  /\ UNCHANGED <<projects, testIdAttributeName, calls>>

\* the await of line 120 resumes once resolveSourceMap(file, ...) has
\* returned: push its sources, then on to the next await or to the end of the
\* method
ListFilesResolved(t) ==
  /\ IsAt(t, "listFiles", "resolve")
  /\ CacheAfterResolve(AwaitedFile(t), fileToSources) = fileToSources
  /\ LET frame == Top(calls[t])
         file == AwaitedFile(t)
         files == frame.files \o resolveSourceMap(file, fileToSources)
         cache == fileToSources
     IN IF frame.j < Len(frame.reports[frame.i].files)
          THEN /\ calls' = [calls EXCEPT ![t] = ReplaceTop(@,
                              [frame EXCEPT !.j = @ + 1, !.files = files])]
               /\ fileToSources' = cache
               /\ last' = Suspended
               /\ UNCHANGED <<projects, testIdAttributeName>>
          ELSE ListFilesAdvance(t, frame.raw,
                 [frame.reports EXCEPT ![frame.i].files = files],
                 frame.i + 1, frame.reports[frame.i].use, cache)

\* what the discovery collaborator may report
TestIdAttributes == {"undefined", "data-pw"}
ReportFileLists == {<<>>, <<FileX>>, <<FileX, FileY>>, <<EmittedY>>}
ProjectReports(name) ==
  {[name |-> name, testDir |-> TestDirOf(name), use |-> use, files |-> files] :
     use \in (IF name = "A" THEN TestIdAttributes ELSE {"undefined"}),
     files \in (IF name = "A" THEN ReportFileLists ELSE {<<>>, <<FileX>>})}
ListFilesReports ==
  {[error |-> "error", projects |-> <<>>]}
  \cup {[error |-> "undefined", projects |-> ps] :
          ps \in {<<>>}
                 \cup {<<a>> : a \in ProjectReports("A")}
                 \cup {<<b>> : b \in ProjectReports("B")}
                 \cup {<<a, b>> : a \in ProjectReports("A"), b \in ProjectReports("B")}}

(***************************************************************************)
(* listTests                                                               *)
(***************************************************************************)
\* projectSuites.find(e => e.project().name === projectName)?.suites || []
RECURSIVE FindFileSuites(_, _)
FindFileSuites(projectSuites, projectName) ==
  IF projectSuites = <<>> THEN <<>>
  ELSE IF Head(projectSuites).name = projectName THEN Head(projectSuites).suites
  ELSE FindFileSuites(Tail(projectSuites), projectName)

\* a returned file suite without a File gets one
RECURSIVE SetSuiteEntriesCreatesFiles(_, _)
SetSuiteEntriesCreatesFiles(project, fileSuites) ==
  IF fileSuites = <<>> THEN project
  ELSE LET fileSuite == Head(fileSuites)
           withFile == IF fileSuite.file \in DOMAIN project.files THEN project
                       ELSE _createFile(project, fileSuite.file)
       IN SetSuiteEntriesCreatesFiles(
            [withFile EXCEPT !.files[fileSuite.file] =
                               setEntries(@, SuiteEntries(fileSuite))],
            Tail(fileSuites))

\* lines 231-237: the entries of every returned file suite that has a File
RECURSIVE SetSuiteEntries(_, _)
SetSuiteEntries(project, fileSuites) ==
  IF fileSuites = <<>> THEN project
  ELSE LET fileSuite == Head(fileSuites)
       IN SetSuiteEntries(
            IF fileSuite.file \in DOMAIN project.files
              THEN [project EXCEPT !.files[fileSuite.file] =
                                     setEntries(@, SuiteEntries(fileSuite))]
              ELSE project,
            Tail(fileSuites))

\* only Files that were parsed before are cleared
ClearEntriesOfParsed(project, filesToDelete) ==
  [project EXCEPT !.files =
     [file \in DOMAIN @ |-> IF file \in filesToDelete /\ HasEntries(@[file])
                              THEN setEntries(@[file], <<>>)
                              ELSE @[file]]]

\* a requested File without a suite goes back to unparsed
ClearEntriesUnparses(project, filesToDelete) ==
  [project EXCEPT !.files =
     [file \in DOMAIN @ |-> IF file \in filesToDelete
                              THEN [@[file] EXCEPT !.entries = Undefined,
                                                   !.revision = @ + 1]
                              ELSE @[file]]]

\* lines 238-243: requested, but no file suite came back
ClearEntries(project, filesToDelete) ==
  [project EXCEPT !.files =
     [file \in DOMAIN @ |-> IF file \in filesToDelete THEN setEntries(@[file], <<>>)
                            ELSE @[file]]]

_updateProjects(projs, projectSuites, requestedFiles) ==
  [projectName \in DOMAIN projs |->
     LET fileSuites == FindFileSuites(projectSuites, projectName)
         filesToDelete == Range(requestedFiles)
                            \ {fileSuites[k].file : k \in 1..Len(fileSuites)}
     IN ClearEntries(SetSuiteEntries(projs[projectName], fileSuites), filesToDelete)]

\* no File is past the revision bound
WithinRevisionBound(projs) ==
  \A name \in DOMAIN projs : \A file \in DOMAIN projs[name].files :
    projs[name].files[file].revision <= MaxRevision

\* listTests(files) up to `await this._playwrightTest.listTests(this.config, files)`
ListTestsFrame(files) == [op |-> "listTests", pc |-> "response", files |-> files]

ListTestsCall(t, files) ==
  /\ calls[t] = <<>>
  /\ calls' = [calls EXCEPT ![t] = <<Called(ListTestsFrame(files))>>]
  /\ last' = Suspended
  /\ UNCHANGED <<projects, testIdAttributeName, fileToSources>>

\* with another call in flight the notification is left to that call
UpdateProjectsNotificationsMerged(projs, projectSuites, requestedFiles) ==
  IF Cardinality({t \in Tasks : calls[t] # <<>>}) > 1 THEN <<>>
  ELSE <<_updateProjects(projs, projectSuites, requestedFiles)>>

\* line 245: the projects the subscribers see at each notification of the pass
UpdateProjectsNotifications(projs, projectSuites, requestedFiles) ==
  <<_updateProjects(projs, projectSuites, requestedFiles)>>

\* a response with errors is returned without being applied
ListTestsResponseStopsOnErrors(t, response) ==
  /\ IsAt(t, "listTests", "response")
  /\ LET files == Top(calls[t]).files
         updated == IF response.errors # <<>> THEN projects
                    ELSE _updateProjects(projects, response.suites, files)
         observed == IF response.errors # <<>> THEN <<>> ELSE <<updated>>
     IN /\ WithinRevisionBound(updated)
        /\ projects' = updated
        /\ calls' = Overtake([calls EXCEPT ![t] =
                               Return(@, Len(observed), response.errors)], t)
        /\ last' = [op |-> "listTests", files |-> files, response |-> response,
                    pre |-> projects, nested |-> IsNested(calls[t]),
                    ret |-> response.errors,
                    task |-> t, stale |-> calls[t][1].overtaken,
                    observed |-> observed, fired |-> Len(observed)]
  /\ UNCHANGED <<testIdAttributeName, fileToSources>>

\* the response of an overtaken call is dropped
ListTestsResponseDropsStale(t, response) ==
  /\ IsAt(t, "listTests", "response")
  /\ LET files == Top(calls[t]).files
         stale == calls[t][1].overtaken
         updated == IF stale THEN projects
                    ELSE _updateProjects(projects, response.suites, files)
         observed == IF stale THEN <<>> ELSE <<updated>>
     IN /\ WithinRevisionBound(updated)
        /\ projects' = updated
        /\ calls' = Overtake([calls EXCEPT ![t] =
                               Return(@, Len(observed), response.errors)], t)
        /\ last' = [op |-> "listTests", files |-> files, response |-> response,
                    pre |-> projects, nested |-> IsNested(calls[t]),
                    ret |-> response.errors,
                    task |-> t, stale |-> stale,
                    observed |-> observed, fired |-> Len(observed)]
  /\ UNCHANGED <<testIdAttributeName, fileToSources>>

\* the response arrives: lines 223-224 and _updateProjects
ListTestsResponse(t, response) ==
  /\ IsAt(t, "listTests", "response")
  /\ LET files == Top(calls[t]).files
         updated == _updateProjects(projects, response.suites, files)
         observed == UpdateProjectsNotifications(projects, response.suites, files)
     IN /\ WithinRevisionBound(updated)
        /\ projects' = updated
        /\ calls' = Overtake([calls EXCEPT ![t] =
                               Return(@, Len(observed), response.errors)], t)
        /\ last' = [op |-> "listTests", files |-> files, response |-> response,
                    pre |-> projects, nested |-> IsNested(calls[t]),
                    ret |-> response.errors,
                    task |-> t, stale |-> calls[t][1].overtaken,
                    observed |-> observed, fired |-> Len(observed)]
  /\ UNCHANGED <<testIdAttributeName, fileToSources>>

\* file suites the collaborator and the reporter hand over
T1 == TestCase("t1")
T2 == TestCase("t2")
ShapeOne == [suites |-> <<>>, tests |-> <<T1>>]
ShapeBoth == [suites |-> <<Describe("d", <<T2>>)>>, tests |-> <<T1>>]
\* a describe block without tests: entries, but allTests() is empty
ShapeHollow == [suites |-> <<Describe("h", <<>>)>>, tests |-> <<>>]

FileLists == {<<>>, <<FileX>>, <<FileY>>, <<FileX, FileY>>}
ProjectNameLists == {<<>>, <<"A">>, <<"B">>, <<"A", "B">>}

\* one project suite per name of names, each with a suite of shape `shape`
\* for every file of files
ProjectSuites(names, files, shape) ==
  [k \in 1..Len(names) |->
     [name |-> names[k],
      suites |-> [n \in 1..Len(files) |-> FileSuite(files[n], shape.suites, shape.tests)]]]

ListTestsRequests == {<<FileX>>, <<FileY>>, <<FileX, FileY>>}
ListTestsResponses ==
  {[suites |-> ProjectSuites(names, files, shape), errors |-> <<>>] :
     names \in ProjectNameLists, files \in FileLists, shape \in {ShapeOne, ShapeBoth}}
  \cup {[suites |-> ProjectSuites(names, files, ShapeOne), errors |-> <<"parse error">>] :
          names \in {<<>>, <<"A">>}, files \in {<<>>, <<FileX>>}}

(***************************************************************************)
(* updateFromRunningProjects                                               *)
(***************************************************************************)
\* lines 258-266: files are created, entries set only where there are none
RECURSIVE IngestFileSuites(_, _)
IngestFileSuites(project, fileSuites) ==
  IF fileSuites = <<>> THEN project
  ELSE LET fileSuite == Head(fileSuites)
           withFile == IF fileSuite.file \in DOMAIN project.files THEN project
                       ELSE _createFile(project, fileSuite.file)
       IN IngestFileSuites(
            IF AllTestsLength(fileSuite) = 0 THEN project
            ELSE IF HasEntries(withFile.files[fileSuite.file]) THEN withFile
            ELSE [withFile EXCEPT !.files[fileSuite.file] =
                                    setEntries(@, SuiteEntries(fileSuite))],
            Tail(fileSuites))

\* the notifications _updateFromRunningProject fires (line 267)
RunningProjectFires == 1

_updateFromRunningProject(project, projectSuite) ==
  IngestFileSuites(project, projectSuite.suites)

\* lines 249-253: the projects after the loop and the notifications fired in it
RECURSIVE IngestProjectSuites(_, _, _)
IngestProjectSuites(projs, projectSuites, fired) ==
  IF projectSuites = <<>> THEN [projects |-> projs, fired |-> fired]
  ELSE LET projectSuite == Head(projectSuites)
       IN IF projectSuite.name \in DOMAIN projs
            THEN IngestProjectSuites(
                   [projs EXCEPT ![projectSuite.name] =
                                   _updateFromRunningProject(@, projectSuite)],
                   Tail(projectSuites), fired + RunningProjectFires)
            ELSE IngestProjectSuites(projs, Tail(projectSuites), fired)

updateFromRunningProjects(projectSuites) ==
  /\ LET result == IngestProjectSuites(projects, projectSuites, 0)
     IN /\ WithinRevisionBound(result.projects)
        /\ projects' = result.projects
        /\ last' = [op |-> "updateFromRunningProjects", projectSuites |-> projectSuites,
                    pre |-> projects, fired |-> result.fired]
  /\ UNCHANGED <<testIdAttributeName, fileToSources, calls>>

RunningProjectSuites ==
  {ProjectSuites(names, files, shape) :
     names \in ProjectNameLists, files \in {<<FileX>>, <<FileX, FileY>>},
     shape \in {ShapeOne, ShapeBoth, ShapeHollow}}

(***************************************************************************)
(* setProjectEnabled                                                       *)
(***************************************************************************)
\* a flag that does not change is not notified
setProjectEnabledIfChanged(name, enabled) ==
  /\ name \in DOMAIN projects
  /\ projects' = [projects EXCEPT ![name].isEnabled = enabled]
  /\ last' = [op |-> "setProjectEnabled", project |-> name, enabled |-> enabled,
              pre |-> projects,
              fired |-> IF projects[name].isEnabled = enabled THEN 0 ELSE 1]
  /\ UNCHANGED <<testIdAttributeName, fileToSources, calls>>

\* lines 89-92
setProjectEnabled(name, enabled) ==
  /\ name \in DOMAIN projects
  /\ projects' = [projects EXCEPT ![name].isEnabled = enabled]
  /\ last' = [op |-> "setProjectEnabled", project |-> name, enabled |-> enabled,
              pre |-> projects, fired |-> 1]
  /\ UNCHANGED <<testIdAttributeName, fileToSources, calls>>

enabledProjects == {name \in DOMAIN projects : projects[name].isEnabled}

(***************************************************************************)
(* workspaceChanged                                                        *)
(***************************************************************************)
\* file.startsWith(dir)
StartsWith(file, dir) ==
  /\ Len(Chars(dir)) <= Len(Chars(file))
  /\ SubSeq(Chars(file), 1, Len(Chars(dir))) = Chars(dir)

\* disabled projects keep their Files
RemoveDeletedFromEnabled(projs, deleted) ==
  [name \in DOMAIN projs |->
     IF projs[name].isEnabled
       THEN [projs[name] EXCEPT !.files = [file \in DOMAIN @ \ deleted |-> @[file]]]
       ELSE projs[name]]

\* lines 181-190
RemoveDeleted(projs, deleted) ==
  [name \in DOMAIN projs |->
     [projs[name] EXCEPT !.files = [file \in DOMAIN @ \ deleted |-> @[file]]]]

\* the Files lines 181-190 remove, as <<project name, file>>
RemovedFiles(projs, deleted) ==
  {pf \in (DOMAIN projs) \X deleted : pf[2] \in DOMAIN projs[pf[1]].files}

\* every created file counts, wherever it lies
hasCreatedFiles(projs, created) == created # {}

\* lines 193-199
hasMatchingFiles(projs, created) ==
  \E name \in DOMAIN projs : \E file \in created : StartsWith(file, projs[name].testDir)

\* every changed file a project knows is loaded, parsed or not
filesToLoadKnown(projs, changed) ==
  {file \in changed : \E name \in DOMAIN projs : file \in DOMAIN projs[name].files}

\* a File without entries is not loaded again
filesToLoadNonEmpty(projs, changed) ==
  {file \in changed :
     \E name \in DOMAIN projs :
       /\ file \in DOMAIN projs[name].files
       /\ projs[name].files[file].entries.defined
       /\ projs[name].files[file].entries.list # <<>>}

\* lines 205-213
filesToLoad(projs, changed) ==
  {file \in changed :
     \E name \in DOMAIN projs :
       file \in DOMAIN projs[name].files /\ HasEntries(projs[name].files[file])}

\* [...filesToLoad]: the array lists the Set in the order its members were
\* added, which follows the order of the project Map (line 206) and, within a
\* project, the order of the Set change.changed (line 207).  Neither order
\* is kept here, the projects and the changed paths being a function and a
\* set: the array is any of the orders of the set.
RECURSIVE ArraysOf(_)
ArraysOf(set) ==
  IF set = {} THEN {<<>>}
  ELSE UNION {{<<first>> \o rest : rest \in ArraysOf(set \ {first})} : first \in set}

\* one notification for every File removed
OwnNotificationsPerFile(frame) == Cardinality(frame.removed)

\* lines 217-218: the notifications workspaceChanged fires itself
OwnNotifications(frame) == IF frame.modelChanged THEN 1 ELSE 0

\* lines 217-218, and the call is over: the method has no return statement, its
\* promise resolves to undefined whatever the nested passes returned
WorkspaceChangedFinish(t, frame) ==
  /\ calls' = [calls EXCEPT ![t] = <<>>]
  /\ last' = [op |-> "workspaceChanged", change |-> frame.change,
              pre |-> projects, requested |-> frame.requested,
              removed |-> frame.removed, modelChanged |-> frame.modelChanged,
              passes |-> frame.passes, returned |-> frame.returned,
              nestedFired |-> frame.nestedFired,
              ownFired |-> OwnNotifications(frame),
              fired |-> frame.nestedFired + OwnNotifications(frame),
              ret |-> "undefined"]

\* lines 204-219, over the projects as they are then
WorkspaceChangedChanged(t, frame, projs) ==
  LET toLoad == filesToLoad(projs, frame.change.changed)
  IN IF toLoad # {}
       THEN /\ \E files \in ArraysOf(toLoad) :
                 calls' = [calls EXCEPT ![t] =
                             <<[frame EXCEPT !.pc = "listTests",
                                             !.passes = Append(@, "listTests"),
                                             !.requested = files],
                               ListTestsFrame(files)>>]
            /\ last' = Suspended
       ELSE WorkspaceChangedFinish(t, frame)

\* the files to load are taken from the model as it is before the removal
WorkspaceChangedCallLoadsFirst(t, rawChange) ==
  /\ calls[t] = <<>>
  /\ LET change == [changed |-> _mapFilesToSources(rawChange.changed, fileToSources),
                    created |-> _mapFilesToSources(rawChange.created, fileToSources),
                    deleted |-> _mapFilesToSources(rawChange.deleted, fileToSources)]
         removed == RemovedFiles(projects, change.deleted)
         projs == RemoveDeleted(projects, change.deleted)
         frame == Called([op |-> "workspaceChanged", pc |-> "start", change |-> change,
                          modelChanged |-> removed # {}, removed |-> removed,
                          removedParsed |-> {pf \in removed :
                                               HasEntries(projects[pf[1]].files[pf[2]])},
                          passes |-> <<>>, requested |-> <<>>, returned |-> <<>>,
                          nestedFired |-> 0])
     IN /\ projects' = projs
        /\ IF hasMatchingFiles(projs, change.created)
             THEN /\ calls' = [calls EXCEPT ![t] =
                                 <<[frame EXCEPT !.pc = "listFiles",
                                                 !.passes = Append(@, "listFiles")],
                                   ListFilesFrame>>]
                  /\ last' = Suspended
             ELSE WorkspaceChangedChanged(t, frame, projects)
  /\ UNCHANGED <<testIdAttributeName, fileToSources>>

\* workspaceChanged(change) up to its first await, or to its end
WorkspaceChangedCall(t, rawChange) ==
  /\ calls[t] = <<>>
  /\ LET change == [changed |-> _mapFilesToSources(rawChange.changed, fileToSources),
                    created |-> _mapFilesToSources(rawChange.created, fileToSources),
                    deleted |-> _mapFilesToSources(rawChange.deleted, fileToSources)]
         removed == RemovedFiles(projects, change.deleted)
         projs == RemoveDeleted(projects, change.deleted)
         frame == Called([op |-> "workspaceChanged", pc |-> "start", change |-> change,
                          modelChanged |-> removed # {}, removed |-> removed,
                          removedParsed |-> {pf \in removed :
                                               HasEntries(projects[pf[1]].files[pf[2]])},
                          passes |-> <<>>, requested |-> <<>>, returned |-> <<>>,
                          nestedFired |-> 0])
     IN /\ projects' = projs
        /\ IF hasMatchingFiles(projs, change.created)
             THEN /\ calls' = [calls EXCEPT ![t] =
                                 <<[frame EXCEPT !.pc = "listFiles",
                                                 !.passes = Append(@, "listFiles")],
                                   ListFilesFrame>>]
                  /\ last' = Suspended
             ELSE WorkspaceChangedChanged(t, frame, projs)
  /\ UNCHANGED <<testIdAttributeName, fileToSources>>

\* a discovery error ends the call: the changed paths are not looked at
WorkspaceChangedAfterListFilesStopsOnError(t) ==
  /\ IsAt(t, "workspaceChanged", "listFiles")
  /\ IF Top(calls[t]).returned = <<"error">>
       THEN WorkspaceChangedFinish(t, Top(calls[t]))
       ELSE WorkspaceChangedChanged(t, Top(calls[t]), projects)
  /\ UNCHANGED <<projects, testIdAttributeName, fileToSources>>

\* `await this.listFiles()` of line 201 returns
WorkspaceChangedAfterListFiles(t) ==
  /\ IsAt(t, "workspaceChanged", "listFiles")
  /\ WorkspaceChangedChanged(t, Top(calls[t]), projects)
  /\ UNCHANGED <<projects, testIdAttributeName, fileToSources>>

\* `await this.listTests([...filesToLoad])` of line 215 returns
WorkspaceChangedAfterListTests(t) ==
  /\ IsAt(t, "workspaceChanged", "listTests")
  /\ WorkspaceChangedFinish(t, Top(calls[t]))
  /\ UNCHANGED <<projects, testIdAttributeName, fileToSources>>

Change(created, changed, deleted) ==
  [created |-> created, changed |-> changed, deleted |-> deleted]

\* what the file system watcher may hand over
WorkspaceChanges ==
  {Change({}, {}, deleted) : deleted \in {{FileX}, {FileX, FileY}, {EmittedY}, {"/w/n.ts"}}}
  \cup {Change({}, changed, {}) : changed \in {{FileX}, {FileX, FileY}, {EmittedY}}}
  \cup {Change(created, {}, {}) : created \in {{FileX}, {"/u2/n.ts"}, {"/w/n.ts"}}}
  \cup {Change({}, {FileY}, {FileX}), Change({}, {FileX}, {FileX}),
        Change({FileX}, {FileX, FileY}, {FileY})}

(***************************************************************************)
(* The caller                                                              *)
(***************************************************************************)
\* The caller makes its next call when the previous one is over (calls are
\* sequenced).  The history of the previous call is dropped first.
Settle ==
  /\ NoCallInFlight
  /\ last.op # "idle"
  /\ last' = [op |-> "idle"]
  /\ UNCHANGED <<projects, testIdAttributeName, fileToSources, calls, made>>

MakesCall ==
  /\ NoCallInFlight
  /\ last.op = "idle"
  /\ made < MaxCalls
  /\ made' = made + 1

Init ==
  /\ projects = <<>>
  /\ testIdAttributeName = "undefined"
  /\ fileToSources = <<>>
  /\ calls = [t \in Tasks |-> <<>>]
  /\ last = [op |-> "idle"]
  /\ made = 0

\* An answer of the collaborator is drawn only where the call waits for it.
Next ==
  \/ MakesCall /\ ListFilesCall(1)
  \/ MakesCall /\ \E files \in ListTestsRequests : ListTestsCall(1, files)
  \/ MakesCall /\ \E change \in WorkspaceChanges : WorkspaceChangedCall(1, change)
  \/ MakesCall /\ \E projectSuites \in RunningProjectSuites :
                    updateFromRunningProjects(projectSuites)
  \/ MakesCall /\ \E name \in ProjectNames, enabled \in BOOLEAN :
                    setProjectEnabled(name, enabled)
  \/ UNCHANGED made /\ IsAt(1, "listFiles", "report") /\
       \E report \in ListFilesReports : ListFilesReport(1, report)
  \/ UNCHANGED made /\ ResolveSourceMapReturns(1)
  \/ UNCHANGED made /\ ListFilesResolved(1)
  \/ UNCHANGED made /\ IsAt(1, "listTests", "response") /\
       \E response \in ListTestsResponses : ListTestsResponse(1, response)
  \/ UNCHANGED made /\ WorkspaceChangedAfterListFiles(1)
  \/ UNCHANGED made /\ WorkspaceChangedAfterListTests(1)
  \/ Settle

Spec == Init /\ [][Next]_vars

(***************************************************************************)
(* Callers that do not wait                                                *)
(***************************************************************************)
\* Nothing in TestModel keeps a call from being made while others are in
\* flight: every await is a point where the steps of the calls interleave.
MaxOverlappingCalls == 3

OverlappingReports ==
  {[error |-> "error", projects |-> <<>>],
   [error |-> "undefined", projects |-> <<>>],
   [error |-> "undefined",
    projects |-> <<[name |-> "A", testDir |-> TestDirOf("A"), use |-> "undefined",
                    files |-> <<FileX>>]>>],
   [error |-> "undefined",
    projects |-> <<[name |-> "A", testDir |-> TestDirOf("A"), use |-> "undefined",
                    files |-> <<EmittedY>>]>>],
   [error |-> "undefined",
    projects |-> <<[name |-> "A", testDir |-> TestDirOf("A"), use |-> "data-pw",
                    files |-> <<FileX, FileY>>],
                   [name |-> "B", testDir |-> TestDirOf("B"), use |-> "undefined",
                    files |-> <<FileX>>]>>]}

OverlappingRequests == {<<FileX>>}

OverlappingResponses ==
  {[suites |-> ProjectSuites(<<"A">>, <<FileX>>, ShapeOne), errors |-> <<>>],
   [suites |-> ProjectSuites(<<"A">>, <<FileX>>, ShapeBoth), errors |-> <<>>],
   [suites |-> <<>>, errors |-> <<"parse error">>]}

OverlappingChanges ==
  {Change({}, {}, {FileX}), Change({FileX}, {FileX}, {}), Change({}, {}, {EmittedY})}

OverlappingRuns == {ProjectSuites(<<"A">>, <<FileX>>, ShapeOne)}

\* the history of the step before is dropped
Forget ==
  /\ last.op \notin {"idle", "await"}
  /\ last' = [op |-> "idle"]
  /\ UNCHANGED <<projects, testIdAttributeName, fileToSources, calls, made>>

Forgotten == last.op \in {"idle", "await"}

\* one more call is made
MakesOverlappingCall ==
  /\ Forgotten
  /\ made < MaxOverlappingCalls
  /\ made' = made + 1

\* the call takes the first task that has no call in flight
IsFree(t) ==
  /\ calls[t] = <<>>
  /\ \A u \in Tasks : u < t => calls[u] # <<>>

\* a call in flight goes on
GoesOn == Forgotten /\ UNCHANGED made

NextOverlapping ==
  \/ \E t \in Tasks : MakesOverlappingCall /\ IsFree(t) /\ ListFilesCall(t)
  \/ \E t \in Tasks : MakesOverlappingCall /\ IsFree(t) /\
       \E files \in OverlappingRequests : ListTestsCall(t, files)
  \/ \E t \in Tasks : MakesOverlappingCall /\ IsFree(t) /\
       \E change \in OverlappingChanges : WorkspaceChangedCall(t, change)
  \/ MakesOverlappingCall /\ \E projectSuites \in OverlappingRuns :
                               updateFromRunningProjects(projectSuites)
  \/ \E t \in Tasks : GoesOn /\ \E report \in OverlappingReports : ListFilesReport(t, report)
  \/ \E t \in Tasks : GoesOn /\ ResolveSourceMapReturns(t)
  \/ \E t \in Tasks : GoesOn /\ ListFilesResolved(t)
  \/ \E t \in Tasks : GoesOn /\
       \E response \in OverlappingResponses : ListTestsResponse(t, response)
  \/ \E t \in Tasks : GoesOn /\ WorkspaceChangedAfterListFiles(t)
  \/ \E t \in Tasks : GoesOn /\ WorkspaceChangedAfterListTests(t)
  \/ Forget

SpecOverlapping == Init /\ [][NextOverlapping]_vars

(***************************************************************************)
(* Properties                                                              *)
(***************************************************************************)
ListFilesPassed == last.op = "listFiles" /\ ~last.error
ListFilesFailed == last.op = "listFiles" /\ last.error
ListTestsPassed == last.op = "listTests"
RanLive == last.op = "updateFromRunningProjects"
WorkspaceChangedOver == last.op = "workspaceChanged"

\* the File has been parsed: its entries are a sequence, empty or not
Parsed(testFile) == testFile.entries.defined

ReportedNames(reports) == {reports[k].name : k \in 1..Len(reports)}

\* the sources of the files the report names for project k
ResolvedFiles(reports, k) ==
  UNION {Range(resolveSourceMap(file, fileToSources)) : file \in Range(reports[k].files)}

\* the files the response holds a file suite for under the suite of project name
ReturnedFiles(response, name) ==
  {fileSuite.file : fileSuite \in
     UNION {Range(projectSuite.suites) :
              projectSuite \in {ps \in Range(response.suites) : ps.name = name}}}

ReturnedSuites(projectSuites, name) ==
  UNION {Range(projectSuite.suites) :
           projectSuite \in {ps \in Range(projectSuites) : ps.name = name}}

\* C1: after a listFiles pass without a top-level error the known project
\* names are exactly the names of the pass's report, whatever was known before.
C1_StrictProjectReconciliation ==
  ListFilesPassed => DOMAIN projects = ReportedNames(last.raw)

\* a pass that pruned a project and kept another
C1_Witness ==
  /\ ListFilesPassed
  /\ DOMAIN last.pre = {"A", "B"}
  /\ DOMAIN projects = {"A"}

\* C2: after a listFiles pass without a top-level error the file map of every
\* reported project holds exactly the resolved files of the report: absent
\* Files are created unparsed, unreported Files are gone with their entries.
C2_StrictFileReconciliation ==
  ListFilesPassed =>
    \A k \in 1..Len(last.raw) :
      LET name == last.raw[k].name
          files == projects[name].files
      IN /\ DOMAIN files = ResolvedFiles(last.raw, k)
         /\ \A file \in DOMAIN files :
              (name \notin DOMAIN last.pre \/ file \notin DOMAIN last.pre[name].files)
                => files[file] = TestFile(name, file)

\* a pass that removed a parsed File, created another File and resolved a
\* source map
C2_Witness ==
  /\ ListFilesPassed
  /\ "A" \in DOMAIN last.pre /\ "A" \in DOMAIN projects
  /\ FileX \in DOMAIN last.pre["A"].files
  /\ Parsed(last.pre["A"].files[FileX])
  /\ FileY \notin DOMAIN last.pre["A"].files
  /\ DOMAIN projects["A"].files = {FileY}
  /\ last.raw[1].files = <<EmittedY>>

\* C3: a top-level error of the discovery is returned and nothing of the
\* model changes: projects, file maps, entries, revisions, enabled flags and
\* the test-ID attribute name stay, no notification is fired.
C3_FailedDiscoveryChangesNothing ==
  ListFilesFailed =>
    /\ last.ret = "error"
    /\ projects = last.pre
    /\ testIdAttributeName = last.preAttr
    /\ last.fired = 0

\* a failed pass over a model that holds a parsed File and a test-ID attribute
C3_Witness ==
  /\ ListFilesFailed
  /\ testIdAttributeName = "data-pw"
  /\ \E name \in DOMAIN projects : \E file \in DOMAIN projects[name].files :
       projects[name].files[file].revision > 0

\* C4: after listTests, in every known project every requested path without
\* a returned file suite under that project has the empty sequence as the
\* entries of its File, when it has a File; also when it was unparsed before.
C4_ReparseConfirmsEmptiness ==
  ListTestsPassed =>
    \A name \in DOMAIN projects :
      \A file \in Range(last.files) \ ReturnedFiles(last.response, name) :
        file \in DOMAIN projects[name].files =>
          projects[name].files[file].entries = Defined(<<>>)

\* an unparsed File and a File of a project without a project suite are both
\* set to the empty sequence
C4_Witness ==
  /\ ListTestsPassed
  /\ \E name \in DOMAIN projects :
       \E file \in Range(last.files) \ ReturnedFiles(last.response, name) :
         /\ file \in DOMAIN projects[name].files
         /\ ~Parsed(last.pre[name].files[file])
         /\ \A k \in 1..Len(last.response.suites) : last.response.suites[k].name # name
  /\ \E name \in DOMAIN projects :
       \E file \in Range(last.files) \ ReturnedFiles(last.response, name) :
         /\ file \in DOMAIN projects[name].files
         /\ \E k \in 1..Len(last.response.suites) : last.response.suites[k].name = name

\* the model after listFiles reported one project with one file, from empty
OneUnparsedFile ==
  ("A" :> [name |-> "A", testDir |-> "/t", isEnabled |-> TRUE,
           files |-> (FileX :> [project |-> "A", file |-> FileX,
                                entries |-> Undefined, revision |-> 0])])

\* C5: listTests replaces the entries of every File that has a returned file
\* suite in its project by the suite's nested suites followed by its direct
\* tests, and raises the revision by one; from the empty model, listFiles of
\* one project with one file and listTests returning one test give one
\* enabled project, one File, one entry, revision 1.
C5_ReparseReplacesEntries ==
  ListTestsPassed =>
    /\ \A name \in DOMAIN projects :
         \A fileSuite \in ReturnedSuites(last.response.suites, name) :
           fileSuite.file \in DOMAIN projects[name].files =>
             LET file == projects[name].files[fileSuite.file]
             IN /\ file.entries = Defined(fileSuite.suites \o fileSuite.tests)
                /\ file.revision = last.pre[name].files[fileSuite.file].revision + 1
    /\ ( /\ made = 2
         /\ last.pre = OneUnparsedFile
         /\ last.files = <<FileX>>
         /\ last.response.suites = ProjectSuites(<<"A">>, <<FileX>>, ShapeOne) )
       => /\ DOMAIN projects = {"A"}
          /\ projects["A"].isEnabled
          /\ DOMAIN projects["A"].files = {FileX}
          /\ projects["A"].files[FileX].entries = Defined(<<T1>>)
          /\ projects["A"].files[FileX].revision = 1

\* a parsed File gets other entries, suites before tests, and revision 2
C5_Witness ==
  /\ ListTestsPassed
  /\ "A" \in DOMAIN projects /\ FileX \in DOMAIN projects["A"].files
  /\ last.pre["A"].files[FileX].entries = Defined(<<T1>>)
  /\ projects["A"].files[FileX].entries = Defined(<<Describe("d", <<T2>>), T1>>)
  /\ projects["A"].files[FileX].revision = 2

\* the scenario of C5 happens
C5_Scenario ==
  /\ ListTestsPassed
  /\ made = 2
  /\ last.pre = OneUnparsedFile
  /\ last.files = <<FileX>>
  /\ last.response.suites = ProjectSuites(<<"A">>, <<FileX>>, ShapeOne)

\* C6: updateFromRunningProjects leaves every File whose entries are defined,
\* empty or not, as it is: entries and revision stay whatever the run reports.
C6_LiveRunKeepsParsedFiles ==
  RanLive =>
    \A name \in DOMAIN last.pre : \A file \in DOMAIN last.pre[name].files :
      Parsed(last.pre[name].files[file]) =>
        /\ name \in DOMAIN projects
        /\ file \in DOMAIN projects[name].files
        /\ projects[name].files[file] = last.pre[name].files[file]

\* the run reports tests for a File parsed with other entries and for a
\* File parsed empty
C6_Witness ==
  /\ RanLive
  /\ \E name \in DOMAIN last.pre :
       \E fileSuite \in ReturnedSuites(last.projectSuites, name) :
         /\ fileSuite.file \in DOMAIN last.pre[name].files
         /\ last.pre[name].files[fileSuite.file].entries = Defined(<<T1>>)
         /\ fileSuite.suites \o fileSuite.tests # <<T1>>
         /\ fileSuite.tests # <<>>
  /\ \E name \in DOMAIN last.pre :
       \E fileSuite \in ReturnedSuites(last.projectSuites, name) :
         /\ fileSuite.file \in DOMAIN last.pre[name].files
         /\ last.pre[name].files[fileSuite.file].entries = Defined(<<>>)
         /\ fileSuite.tests # <<>>

\* the reported file suites of project name that hold a test
SuitesWithTests(projectSuites, name) ==
  {fileSuite \in ReturnedSuites(projectSuites, name) :
     fileSuite.tests # <<>> \/ \E k \in 1..Len(fileSuite.suites) : fileSuite.suites[k].tests # <<>>}

\* C7: updateFromRunningProjects removes no project and no File and creates
\* no project: every file map becomes its old keys and the paths of the
\* reported file suites of that project that hold a test.
C7_LiveRunOnlyAddsFiles ==
  RanLive =>
    /\ DOMAIN projects = DOMAIN last.pre
    /\ \A name \in DOMAIN projects :
         DOMAIN projects[name].files =
           DOMAIN last.pre[name].files
             \cup {fileSuite.file : fileSuite \in SuitesWithTests(last.projectSuites, name)}

\* a run that reports a suite of an unknown project and, for a known
\* project, a file suite without tests for a path that has no File
C7_WitnessSkips ==
  /\ RanLive
  /\ \E k \in 1..Len(last.projectSuites) : last.projectSuites[k].name \notin DOMAIN projects
  /\ \E name \in DOMAIN projects :
       \E fileSuite \in ReturnedSuites(last.projectSuites, name) :
         /\ fileSuite.file \notin DOMAIN projects[name].files
         /\ fileSuite.suites # <<>>

\* a run that creates a File in a project that has Files, and reports a
\* suite of an unknown project
C7_Witness ==
  /\ RanLive
  /\ \E k \in 1..Len(last.projectSuites) : last.projectSuites[k].name \notin DOMAIN projects
  /\ \E name \in DOMAIN projects :
       /\ DOMAIN last.pre[name].files # {}
       /\ DOMAIN projects[name].files # DOMAIN last.pre[name].files

\* C8: every call of updateFromRunningProjects fires exactly one change
\* notification, however many project suites are reported, known or not.
C8_LiveRunFiresOnce == RanLive => last.fired = 1

\* C9: workspaceChanged fires its own notification only if its deletion step
\* removed a File and no listFiles or listTests pass of the same call fired.
C9_NoDoubleNotification ==
  WorkspaceChangedOver =>
    (last.ownFired > 0 => (last.removed # {} /\ last.nestedFired = 0))

\* C10: workspaceChanged with empty created and changed sets fires exactly
\* one notification when its deleted set removes Files, however many and in
\* however many projects, and none when it removes no File.
C10_DeletionsCoalesce ==
  (WorkspaceChangedOver /\ last.change.created = {} /\ last.change.changed = {}) =>
    /\ last.passes = <<>>
    /\ last.fired = IF last.removed = {} THEN 0 ELSE 1

\* three Files of two projects removed by one call
C10_Witness ==
  /\ WorkspaceChangedOver
  /\ last.change.created = {} /\ last.change.changed = {}
  /\ Cardinality(last.removed) >= 3
  /\ {pf[1] : pf \in last.removed} = {"A", "B"}

\* a call whose deleted set matches no File of a model that has Files
C10_WitnessNone ==
  /\ WorkspaceChangedOver
  /\ last.change.created = {} /\ last.change.changed = {}
  /\ last.change.deleted # {}
  /\ last.removed = {}
  /\ \E name \in DOMAIN projects : DOMAIN projects[name].files # {}

\* workspaceChanged of task 1, called by the caller, is suspended in the nested
\* pass `pass`, whose response has not arrived
SuspendedIn(pass) ==
  /\ Len(calls[1]) = 2
  /\ calls[1][1].op = "workspaceChanged"
  /\ calls[1][1].pc = pass
  /\ calls[1][2].pc = IF pass = "listFiles" THEN "report" ELSE "response"

\* the changed paths some known project holds a parsed File for
ParsedAmong(projs, changed) ==
  {file \in changed :
     \E name \in DOMAIN projs :
       /\ file \in DOMAIN projs[name].files
       /\ Parsed(projs[name].files[file])}

Occurrences(seq, x) == Cardinality({k \in 1..Len(seq) : seq[k] = x})

\* C11: workspaceChanged asks listTests for exactly the changed paths that some
\* known project holds a File with defined entries for, each once, whatever
\* project holds it; a changed path without a File or with an unparsed File is
\* never asked for; with nothing to ask for listTests is not called, and it is
\* called at most once per workspaceChanged.
C11_ReloadsParsedFilesOnly ==
  /\ SuspendedIn("listTests") =>
       /\ Range(calls[1][2].files) = ParsedAmong(projects, calls[1][1].change.changed)
       /\ Len(calls[1][2].files) = Cardinality(Range(calls[1][2].files))
       /\ calls[1][2].files # <<>>
       /\ Occurrences(calls[1][1].passes, "listTests") = 1
  /\ WorkspaceChangedOver =>
       /\ Occurrences(last.passes, "listTests") <= 1
       /\ Occurrences(last.passes, "listTests") = 0 =>
            /\ last.requested = <<>>
            /\ ParsedAmong(projects, last.change.changed) = {}
       /\ Occurrences(last.passes, "listTests") = 1 =>
            /\ last.requested # <<>>
            /\ Range(last.requested) \subseteq last.change.changed

\* listTests is asked for the parsed one of two changed files, the other,
\* known but unparsed, is left out
C11_Witness ==
  /\ SuspendedIn("listTests")
  /\ calls[1][1].change.changed = {FileX, FileY}
  /\ "A" \in DOMAIN projects
  /\ {FileX, FileY} \subseteq DOMAIN projects["A"].files
  /\ Parsed(projects["A"].files[FileX])
  /\ ~Parsed(projects["A"].files[FileY])
  /\ calls[1][2].files = <<FileX>>

\* no changed file is parsed and listTests is not called
C11_WitnessNone ==
  /\ WorkspaceChangedOver
  /\ last.change.changed = {FileX}
  /\ last.passes = <<>>
  /\ "A" \in DOMAIN projects /\ FileX \in DOMAIN projects["A"].files

\* the characters of dir are the first characters of file
IsStringPrefix(dir, file) ==
  \E n \in 0..Len(Chars(file)) : SubSeq(Chars(file), 1, n) = Chars(dir)

\* some created path begins with the test root of some known project
UnderSomeRoot(projs, created) ==
  \E name \in DOMAIN projs : \E file \in created :
    IsStringPrefix(projs[name].testDir, file)

\* C12: workspaceChanged runs listFiles if and only if some created path has
\* the test root of some known project as a string prefix; by itself it adds no
\* File for a created path: without such a path (or without projects) it goes
\* on without listFiles and, over without a nested pass, has changed nothing
\* but the removal of the deleted paths.
C12_CreatedPathsTriggerDiscovery ==
  /\ SuspendedIn("listFiles") => UnderSomeRoot(projects, calls[1][1].change.created)
  /\ (SuspendedIn("listTests") /\ calls[1][1].passes = <<"listTests">>)
       => ~UnderSomeRoot(projects, calls[1][1].change.created)
  /\ (WorkspaceChangedOver /\ last.passes = <<>>) =>
       /\ ~UnderSomeRoot(last.pre, last.change.created)
       /\ projects =
            [name \in DOMAIN last.pre |->
               [last.pre[name] EXCEPT !.files =
                  [file \in DOMAIN @ \ last.change.deleted |-> @[file]]]]

\* a created path begins with the characters of a test root without lying in
\* that directory: listFiles is run
C12_Witness ==
  /\ SuspendedIn("listFiles")
  /\ calls[1][1].change.created = {"/u2/n.ts"}
  /\ DOMAIN projects = {"A", "B"}

\* a created path under no known root: nothing is run, nothing changes
C12_WitnessNone ==
  /\ WorkspaceChangedOver
  /\ last.change.created = {"/w/n.ts"}
  /\ last.passes = <<>>
  /\ DOMAIN projects = {"A", "B"}
  /\ projects = last.pre

\* C13: a File is created with revision 0; every setEntries on it raises the
\* revision by exactly one, also when the new entries equal the old ones, and
\* nothing else changes revision or entries: over every step the revision of
\* a File that stays in its project's map never decreases, never returns to 0
\* and moves only in a listTests pass or a live run.
C13_RevisionCountsSetEntries ==
  [][\A name \in DOMAIN projects' :
       \A file \in DOMAIN projects'[name].files :
         LET new == projects'[name].files[file] IN
         IF name \in DOMAIN projects /\ file \in DOMAIN projects[name].files
           THEN LET old == projects[name].files[file] IN
                /\ new.revision \in {old.revision, old.revision + 1}
                /\ old.revision > 0 => new.revision > 0
                /\ new.revision = old.revision => new.entries = old.entries
                /\ new.revision # old.revision =>
                     last'.op \in {"listTests", "updateFromRunningProjects"}
                /\ ( /\ last'.op = "listTests"
                     /\ last'.pre = projects
                     /\ file \in Range(last'.files) \cup ReturnedFiles(last'.response, name) )
                     => new.revision = old.revision + 1
           ELSE \/ new.revision = 0 /\ ~Parsed(new)
                \/ /\ new.revision = 1 /\ Parsed(new)
                   /\ last'.op = "updateFromRunningProjects"
    ]_vars

\* a File has been given the entries it already had: its revision went from
\* 1 to 2
C13_Witness ==
  /\ ListTestsPassed
  /\ "A" \in DOMAIN projects /\ FileX \in DOMAIN projects["A"].files
  /\ last.pre["A"].files[FileX].entries = Defined(<<T1>>)
  /\ last.pre["A"].files[FileX].revision = 1
  /\ projects["A"].files[FileX].entries = Defined(<<T1>>)
  /\ projects["A"].files[FileX].revision = 2

\* C14: setProjectEnabled(project, b) sets the flag of the project to b and
\* fires exactly one notification, also when the flag was b already; the set of
\* projects, the other flags, the file maps, entries and revisions stay, and
\* enabledProjects() holds exactly the projects whose flag is true.
C14_EnablingTouchesTheFlagOnly ==
  last.op = "setProjectEnabled" =>
    /\ last.fired = 1
    /\ projects[last.project].isEnabled = last.enabled
    /\ DOMAIN projects = DOMAIN last.pre
    /\ \A name \in DOMAIN projects :
         /\ projects[name].files = last.pre[name].files
         /\ projects[name].testDir = last.pre[name].testDir
         /\ name # last.project => projects[name].isEnabled = last.pre[name].isEnabled
    /\ enabledProjects =
         {name \in DOMAIN last.pre \ {last.project} : last.pre[name].isEnabled}
           \cup (IF last.enabled THEN {last.project} ELSE {})

\* a disabled project is disabled once more, beside an enabled project, and
\* it holds a parsed File
C14_Witness ==
  /\ last.op = "setProjectEnabled"
  /\ DOMAIN projects = {"A", "B"}
  /\ last.project = "A"
  /\ ~last.enabled /\ ~last.pre["A"].isEnabled
  /\ enabledProjects = {"B"}
  /\ \E file \in DOMAIN projects["A"].files : Parsed(projects["A"].files[file])

\* the model is what a listFiles pass with this report leaves: the reported
\* projects with the resolved files of the report
LeftByReport(projs, reports) ==
  /\ DOMAIN projs = ReportedNames(reports)
  /\ \A k \in 1..Len(reports) :
       DOMAIN projs[reports[k].name].files = ResolvedFiles(reports, k)

\* C15: listFiles run again with the report of the pass before, without error,
\* changes nothing: a pass over a model that holds the projects and files of
\* its report leaves project set, file maps, entries, revisions and enabled
\* flags as they are (a retained File is not given entries).
C15_SameReportTwiceIsIdempotent ==
  (ListFilesPassed /\ LeftByReport(last.pre, last.raw)) => projects = last.pre

\* the repeated pass finds a disabled project with a parsed File and an
\* unparsed File
C15_Witness ==
  /\ ListFilesPassed
  /\ LeftByReport(last.pre, last.raw)
  /\ DOMAIN last.pre = {"A"}
  /\ ~last.pre["A"].isEnabled
  /\ DOMAIN last.pre["A"].files = {FileX, FileY}
  /\ Parsed(last.pre["A"].files[FileX])
  /\ last.pre["A"].files[FileX].revision > 0
  /\ ~Parsed(last.pre["A"].files[FileY])

\* C16: listTests returns exactly the error list of the response and, whether
\* that list is empty or not, gives every returned file suite of a known
\* project with a File for it to that File and fires exactly one notification,
\* which sees all entries set.
C16_ErrorsDoNotStopTheUpdate ==
  ListTestsPassed =>
    /\ last.ret = last.response.errors
    /\ last.fired = 1
    /\ last.observed = <<projects>>
    /\ \A name \in DOMAIN projects :
         \A fileSuite \in ReturnedSuites(last.response.suites, name) :
           fileSuite.file \in DOMAIN projects[name].files =>
             projects[name].files[fileSuite.file].entries
               = Defined(fileSuite.suites \o fileSuite.tests)

\* a response with an error and a file suite: the error is returned and the
\* unparsed File has got the entries of the suite
C16_Witness ==
  /\ ListTestsPassed
  /\ last.response.errors # <<>>
  /\ last.ret # <<>>
  /\ "A" \in DOMAIN projects /\ FileX \in DOMAIN projects["A"].files
  /\ ~Parsed(last.pre["A"].files[FileX])
  /\ projects["A"].files[FileX].entries = Defined(<<T1>>)

\* C17: a listFiles pass without a top-level error fires exactly one
\* notification, which sees every creation and deletion of the pass applied,
\* whether the pass changed nothing, one thing or many.
C17_OneNotificationPerDiscovery ==
  ListFilesPassed =>
    /\ last.fired = 1
    /\ last.observed = <<projects>>

\* a pass that created a project, deleted a project, created a File and
\* deleted a File
C17_Witness ==
  /\ ListFilesPassed
  /\ last.fired = 1
  /\ DOMAIN last.pre = {"A"} /\ DOMAIN projects = {"A", "B"}
  /\ DOMAIN last.pre["A"].files = {FileX}
  /\ DOMAIN projects["A"].files = {FileY}

\* a pass that changed nothing
C17_WitnessNoChange ==
  /\ ListFilesPassed
  /\ last.fired = 1
  /\ projects = last.pre
  /\ projects # << >>

\* the history shows a step of an operation that has run to its end
WholeStep ==
  last.op \in {"listFiles", "listTests", "updateFromRunningProjects", "workspaceChanged"}

\* what a listFiles or listTests pass that the history shows has left: all of
\* its report or response is applied
AppliedWhole ==
  /\ ListFilesPassed =>
       /\ DOMAIN projects = ReportedNames(last.raw)
       /\ \A k \in 1..Len(last.raw) :
            DOMAIN projects[last.raw[k].name].files = ResolvedFiles(last.raw, k)
       /\ last.observed = <<projects>>
  /\ ListTestsPassed =>
       /\ \A name \in DOMAIN projects :
            /\ \A fileSuite \in ReturnedSuites(last.response.suites, name) :
                 fileSuite.file \in DOMAIN projects[name].files =>
                   projects[name].files[fileSuite.file].entries
                     = Defined(fileSuite.suites \o fileSuite.tests)
            /\ \A file \in Range(last.files) \ ReturnedFiles(last.response, name) :
                 file \in DOMAIN projects[name].files =>
                   projects[name].files[file].entries = Defined(<<>>)
       /\ last.observed = <<projects>>

\* a step that changes projects or Files is the whole of an application, from
\* the model as it was to the model the history shows, or the removal of the
\* deleted paths by a workspaceChanged that is suspended next
ChangesAtOnce ==
  projects' # projects =>
    \/ /\ last'.op \in {"listFiles", "listTests", "updateFromRunningProjects",
                        "workspaceChanged"}
       /\ last'.pre = projects
    \/ /\ last'.op = "await"
       /\ \E t \in Tasks :
            /\ calls[t] = <<>> /\ calls'[t] # <<>>
            /\ calls'[t][1].op = "workspaceChanged"
            /\ projects' =
                 [name \in DOMAIN projects |->
                    [projects[name] EXCEPT !.files =
                       [file \in DOMAIN @ \ calls'[t][1].change.deleted |-> @[file]]]]

\* C18: with calls of listFiles, listTests, workspaceChanged and
\* updateFromRunningProjects in flight together, in any interleaving, the
\* report or response of a discovery is applied in one step: the calls are
\* suspended only at their awaits, none of which lies between two of the
\* creations, deletions and entry replacements of a pass, so that no operation
\* and no subscriber sees a pass applied in part.
C18_ResponsesAreAppliedAtOnce == []AppliedWhole /\ [][ChangesAtOnce]_vars

\* while a listFiles call waits for a source map, its report received, the
\* response of a listTests call made after it is applied
C18_Witness ==
  /\ ListTestsPassed
  /\ last.task = 2
  /\ projects # last.pre
  /\ IsAt(1, "listFiles", "resolve")

\* C19: the notification of a listFiles or listTests pass is fired in the step
\* that applies the pass, once, on the model the pass leaves: so the passes
\* notify in the order they are applied, whatever the order of the calls, each
\* before any mutation of a later pass, and the notifications of two passes
\* are never merged into one.
C19_NotificationsFollowApplications ==
  (ListFilesPassed \/ ListTestsPassed) =>
    /\ last.fired = 1
    /\ Len(last.observed) = last.fired
    /\ \A k \in 1..Len(last.observed) : last.observed[k] = projects

\* of two calls in flight the one made later is applied, and notified, first
C19_Witness ==
  /\ ListFilesPassed
  /\ last.task = 2
  /\ last.fired = 1
  /\ projects # last.pre
  /\ IsAt(1, "listTests", "response")

\* the call made first is applied, and notified, after the one made later
C19_WitnessLate ==
  /\ ListFilesPassed
  /\ last.stale
  /\ last.fired = 1
  /\ projects # last.pre

\* C20: the response applied last decides, whatever the order of the calls:
\* the response of a call that a later call has overtaken is applied like any
\* other. An overtaken listTests response replaces the entries the newer
\* response has set and raises the revision, an overtaken listFiles report
\* reconciles projects and files; nothing rejects it as stale.
C20_LastResponseWins ==
  /\ (ListTestsPassed /\ last.stale) =>
       \A name \in DOMAIN projects :
         \A fileSuite \in ReturnedSuites(last.response.suites, name) :
           fileSuite.file \in DOMAIN projects[name].files =>
             LET file == projects[name].files[fileSuite.file]
             IN /\ file.entries = Defined(fileSuite.suites \o fileSuite.tests)
                /\ file.revision = last.pre[name].files[fileSuite.file].revision + 1
  /\ (ListFilesPassed /\ last.stale) =>
       /\ DOMAIN projects = ReportedNames(last.raw)
       /\ \A k \in 1..Len(last.raw) :
            LET name == last.raw[k].name
            IN /\ DOMAIN projects[name].files = ResolvedFiles(last.raw, k)
               /\ \A file \in DOMAIN projects[name].files :
                    (name \notin DOMAIN last.pre \/ file \notin DOMAIN last.pre[name].files)
                      => ~Parsed(projects[name].files[file])

\* two listTests calls for one file: the response of the second is applied
\* first, the response of the first then replaces its entries
C20_Witness ==
  /\ ListTestsPassed
  /\ last.stale
  /\ made = 3
  /\ "A" \in DOMAIN projects /\ FileX \in DOMAIN projects["A"].files
  /\ last.pre["A"].files[FileX].entries = Defined(<<Describe("d", <<T2>>), T1>>)
  /\ last.pre["A"].files[FileX].revision = 1
  /\ projects["A"].files[FileX].entries = Defined(<<T1>>)
  /\ projects["A"].files[FileX].revision = 2

\* a listFiles call overtaken by a listTests call: its report, applied last,
\* removes the File the response has parsed
C20_WitnessDiscovery ==
  /\ ListFilesPassed
  /\ last.stale
  /\ "A" \in DOMAIN last.pre /\ FileX \in DOMAIN last.pre["A"].files
  /\ Parsed(last.pre["A"].files[FileX])
  /\ projects = << >>

\* C21: entries that are defined never become undefined again: over every
\* step a File that stays in the file map of its project and was parsed is
\* parsed still, be it with the empty sequence; a parsed File stops being
\* parsed only by leaving the map.
C21_ParsedStaysParsed ==
  [][\A name \in DOMAIN projects \cap DOMAIN projects' :
       \A file \in DOMAIN projects[name].files \cap DOMAIN projects'[name].files :
         Parsed(projects[name].files[file]) => Parsed(projects'[name].files[file])
    ]_vars

\* a parsed File with an entry is asked for again and no suite comes back: it
\* is parsed and empty
C21_Witness ==
  /\ ListTestsPassed
  /\ "A" \in DOMAIN projects /\ FileX \in DOMAIN projects["A"].files
  /\ last.pre["A"].files[FileX].entries = Defined(<<T1>>)
  /\ FileX \in Range(last.files)
  /\ FileX \notin ReturnedFiles(last.response, "A")
  /\ projects["A"].files[FileX].entries = Defined(<<>>)

\* task 1 has no call in flight and the step is the first of a
\* workspaceChanged call: up to its first await, or to its end
WorkspaceChangedBegins ==
  /\ calls[1] = <<>>
  /\ \/ calls'[1] # <<>> /\ calls'[1][1].op = "workspaceChanged"
     \/ calls'[1] = <<>> /\ last'.op = "workspaceChanged"

\* C22: the first step of workspaceChanged, before any of its discovery calls
\* is awaited, removes from every known project, enabled or not, the Files
\* whose path is in the translated deleted set; the other Files, with entries
\* and revision, the projects and their flags stay, and the model counts as
\* changed exactly if a File was removed.
C22_DeletionComesFirst ==
  [][WorkspaceChangedBegins =>
       LET suspended == calls'[1] # <<>>
           frame == IF suspended THEN calls'[1][1] ELSE last'
           gone == frame.change.deleted
       IN /\ DOMAIN projects' = DOMAIN projects
          /\ \A name \in DOMAIN projects :
               /\ DOMAIN projects'[name].files = DOMAIN projects[name].files \ gone
               /\ \A file \in DOMAIN projects'[name].files :
                    projects'[name].files[file] = projects[name].files[file]
               /\ projects'[name].isEnabled = projects[name].isEnabled
               /\ projects'[name].testDir = projects[name].testDir
          /\ frame.modelChanged = (projects' # projects)
          /\ suspended =>
               /\ Len(calls'[1]) = 2
               /\ Len(frame.passes) = 1
               /\ calls'[1][2].pc = IF frame.pc = "listFiles" THEN "report" ELSE "response"
    ]_vars

\* a path is removed from a disabled and from an enabled project, the other
\* File of the project stays parsed, and the re-parse of that File is awaited
C22_Witness ==
  /\ SuspendedIn("listTests")
  /\ calls[1][1].change.deleted = {FileX}
  /\ calls[1][1].removed = {<<"A", FileX>>, <<"B", FileX>>}
  /\ ~projects["A"].isEnabled /\ projects["B"].isEnabled
  /\ DOMAIN projects["A"].files = {FileY}
  /\ DOMAIN projects["B"].files = {}
  /\ Parsed(projects["A"].files[FileY])

\* C23: a listTests pass leaves the set of projects and the set of paths of
\* every project as they were and returns the errors of the response, nothing
\* else: a project suite of an unknown project, a file suite of a path without
\* File and a requested path without File create nothing and fail nothing.
C23_ReparseKeepsMembership ==
  ListTestsPassed =>
    /\ DOMAIN projects = DOMAIN last.pre
    /\ \A name \in DOMAIN projects :
         /\ DOMAIN projects[name].files = DOMAIN last.pre[name].files
         /\ projects[name].isEnabled = last.pre[name].isEnabled
         /\ projects[name].testDir = last.pre[name].testDir
         /\ \A file \in DOMAIN projects[name].files :
              (file \notin Range(last.files) \cup ReturnedFiles(last.response, name))
                => projects[name].files[file] = last.pre[name].files[file]
    /\ last.ret = last.response.errors

\* the response names the unknown project B and the path y, which has no
\* File; y is also asked for
C23_Witness ==
  /\ ListTestsPassed
  /\ DOMAIN last.pre = {"A"}
  /\ DOMAIN last.pre["A"].files = {FileX}
  /\ last.files = <<FileX, FileY>>
  /\ last.response.suites = ProjectSuites(<<"A", "B">>, <<FileX, FileY>>, ShapeOne)
  /\ DOMAIN projects = {"A"}
  /\ DOMAIN projects["A"].files = {FileX}
  /\ last.ret = <<>>

\* C24 as stated: after a listFiles pass without a top-level error that
\* reports a project, the test-ID attribute name is the option of the first
\* reported project.
C24_AttributeOfFirstProject ==
  (ListFilesPassed /\ last.raw # <<>>) => testIdAttributeName = last.raw[1].use

\* C24: after a listFiles pass without a top-level error that reports a
\* project, the test-ID attribute name is the option of the last reported
\* project (undefined when that project sets none); a pass that reports no
\* project leaves the name as it was.
C24_AttributeOfLastProject ==
  ListFilesPassed =>
    testIdAttributeName = IF last.raw # <<>> THEN last.raw[Len(last.raw)].use
                          ELSE last.preAttr

\* the first project sets the option, the last does not: the name is undefined
C24_Witness ==
  /\ ListFilesPassed
  /\ Len(last.raw) = 2
  /\ last.raw[1].use = "data-pw"
  /\ last.raw[2].use = "undefined"
  /\ last.preAttr = "data-pw"
  /\ testIdAttributeName = "undefined"

\* C25: in every state every project is stored under its name, every File
\* under its path in the file map of the project that owns it; two projects
\* that hold the same path hold it in two Files, each with its own owner.
C25_OwnershipIsConsistent ==
  \A name \in DOMAIN projects :
    /\ projects[name].name = name
    /\ \A file \in DOMAIN projects[name].files :
         /\ projects[name].files[file].file = file
         /\ projects[name].files[file].project = name
         /\ \A other \in DOMAIN projects \ {name} :
              file \in DOMAIN projects[other].files =>
                projects[other].files[file] # projects[name].files[file]

\* two projects hold the same path, parsed in one and unparsed in the other,
\* and a live run has added a File to one of them
C25_Witness ==
  /\ DOMAIN projects = {"A", "B"}
  /\ FileX \in DOMAIN projects["A"].files /\ FileX \in DOMAIN projects["B"].files
  /\ Parsed(projects["A"].files[FileX])
  /\ ~Parsed(projects["B"].files[FileX])
  /\ RanLive
  /\ FileY \in DOMAIN projects["A"].files
  /\ FileY \notin DOMAIN last.pre["A"].files

\* C26: in every state and for every File of every project the revision is 0
\* exactly if the entries are undefined: no operation defines entries without
\* raising the revision, none raises the revision without defining entries.
C26_RevisionZeroIffUnparsed ==
  \A name \in DOMAIN projects :
    \A file \in DOMAIN projects[name].files :
      (projects[name].files[file].revision = 0) <=> ~Parsed(projects[name].files[file])

\* a live run has parsed a File it created, next to an unparsed File and a
\* File that is parsed and empty
C26_Witness ==
  /\ RanLive
  /\ "A" \in DOMAIN projects
  /\ DOMAIN projects["A"].files = {FileX, FileY}
  /\ FileY \notin DOMAIN last.pre["A"].files
  /\ projects["A"].files[FileY].revision = 1 /\ Parsed(projects["A"].files[FileY])
  /\ projects["A"].files[FileX].entries = Defined(<<>>)
  /\ projects["A"].files[FileX].revision > 0
  /\ "B" \in DOMAIN projects /\ FileX \in DOMAIN projects["B"].files
  /\ projects["B"].files[FileX].revision = 0 /\ ~Parsed(projects["B"].files[FileX])

\* C27: a File that listFiles finds no File for is made new, unparsed and
\* with revision 0, whatever the project held under that path before: a File
\* that workspaceChanged has removed and that the discovery of the same call
\* reports again does not get the entries and the revision of the removed
\* File back, so that the revision seen under a project and path can go down.
C27_RecreatedFilesAreFresh ==
  ListFilesPassed =>
    /\ \A name \in DOMAIN projects :
         \A file \in DOMAIN projects[name].files :
           (name \notin DOMAIN last.pre \/ file \notin DOMAIN last.pre[name].files) =>
             /\ ~Parsed(projects[name].files[file])
             /\ projects[name].files[file].revision = 0
    /\ last.nested =>
         \A pf \in calls[1][1].removed :
           (pf[1] \in DOMAIN projects /\ pf[2] \in DOMAIN projects[pf[1]].files) =>
             /\ ~Parsed(projects[pf[1]].files[pf[2]])
             /\ projects[pf[1]].files[pf[2]].revision = 0

\* a parsed File, whose revision is above 0, is removed by workspaceChanged
\* and reported again by the discovery of that call: it is back unparsed with
\* revision 0
C27_Witness ==
  /\ ListFilesPassed
  /\ last.nested
  /\ <<"A", FileY>> \in calls[1][1].removedParsed
  /\ FileY \notin DOMAIN last.pre["A"].files
  /\ "A" \in DOMAIN projects /\ FileY \in DOMAIN projects["A"].files
  /\ projects["A"].files[FileY].revision = 0
  /\ projects["A"].files[FileY].entries = Undefined

\* C28: the enabled flag of a project that stays in the model is changed by
\* setProjectEnabled for that project only: no step of listFiles, listTests,
\* updateFromRunningProjects or workspaceChanged changes it, a disabled
\* project that discovery reports again stays disabled; a project that a step
\* adds, be it one that an earlier pass pruned, is added by listFiles with
\* the flag true.
C28_OnlyEnablingChangesTheFlag ==
  [][\A name \in DOMAIN projects' :
       IF name \in DOMAIN projects
         THEN projects'[name].isEnabled # projects[name].isEnabled =>
                /\ last'.op = "setProjectEnabled"
                /\ last'.project = name
         ELSE /\ projects'[name].isEnabled
              /\ last'.op = "listFiles"
    ]_vars

\* a pass reports a disabled project again, which stays disabled, and a
\* project the model did not hold, which is enabled
C28_Witness ==
  /\ ListFilesPassed
  /\ DOMAIN last.pre = {"A"}
  /\ ~last.pre["A"].isEnabled
  /\ DOMAIN projects = {"A", "B"}
  /\ ~projects["A"].isEnabled
  /\ projects["B"].isEnabled

\* the File is parsed and holds no entry
ParsedEmpty(testFile) == testFile.entries = Defined(<<>>)

\* the changed paths some known project holds a parsed, empty File for
ParsedEmptyAmong(projs, changed) ==
  {file \in changed :
     \E name \in DOMAIN projs :
       file \in DOMAIN projs[name].files /\ ParsedEmpty(projs[name].files[file])}

\* C29: a File that is parsed and empty counts as parsed: workspaceChanged
\* asks listTests for its path when the path has changed, and a live run that
\* reports tests for its path leaves its entries and revision as they are.
C29_EmptyCountsAsParsed ==
  /\ SuspendedIn("listTests") =>
       ParsedEmptyAmong(projects, calls[1][1].change.changed)
         \subseteq Range(calls[1][2].files)
  /\ (WorkspaceChangedOver /\ Occurrences(last.passes, "listTests") = 0) =>
       ParsedEmptyAmong(projects, last.change.changed) = {}
  /\ RanLive =>
       \A name \in DOMAIN last.pre :
         \A file \in DOMAIN last.pre[name].files :
           ParsedEmpty(last.pre[name].files[file]) =>
             projects[name].files[file] = last.pre[name].files[file]

\* the one changed path has a File that is parsed and empty, in no project a
\* File with entries: listTests is asked for it
C29_Witness ==
  /\ SuspendedIn("listTests")
  /\ calls[1][1].change.changed = {FileX}
  /\ DOMAIN projects = {"A"}
  /\ ParsedEmpty(projects["A"].files[FileX])
  /\ calls[1][2].files = <<FileX>>

\* a live run reports a test for the path of a parsed, empty File
C29_WitnessLive ==
  /\ RanLive
  /\ "A" \in DOMAIN last.pre /\ FileX \in DOMAIN last.pre["A"].files
  /\ ParsedEmpty(last.pre["A"].files[FileX])
  /\ \E fileSuite \in ReturnedSuites(last.projectSuites, "A") :
       fileSuite.file = FileX /\ fileSuite.tests # <<>>
  /\ ParsedEmpty(projects["A"].files[FileX])

\* the nested passes of a workspaceChanged call, in the order they may run
OrderedPasses == {<<>>, <<"listFiles">>, <<"listTests">>, <<"listFiles", "listTests">>}

\* C30: a workspaceChanged call removes the deleted paths, then runs listFiles,
\* then listTests, each at most once, and asks listTests for the parsed Files
\* of the model as it is after the removal and after listFiles: with no other
\* call in between, a path that is deleted and changed, and a path whose File
\* the listFiles pass of the call has pruned or made anew, is not asked for.
C30_ReparseFollowsDiscovery ==
  /\ (calls[1] # <<>> /\ calls[1][1].op = "workspaceChanged") =>
       /\ calls[1][1].passes \in OrderedPasses \ {<<>>}
       /\ (SuspendedIn("listFiles") \/ SuspendedIn("listTests")) =>
            \A pf \in calls[1][1].removed :
              Len(calls[1][1].passes) = 1 => pf[2] \notin DOMAIN projects[pf[1]].files
  /\ SuspendedIn("listTests") =>
       /\ Range(calls[1][2].files) \cap calls[1][1].change.deleted = {}
       /\ \A file \in Range(calls[1][2].files) :
            /\ file \in calls[1][1].change.changed
            /\ \E name \in DOMAIN projects :
                 /\ file \in DOMAIN projects[name].files
                 /\ Parsed(projects[name].files[file])
       /\ \A file \in calls[1][1].change.changed \ Range(calls[1][2].files) :
            \A name \in DOMAIN projects :
              file \in DOMAIN projects[name].files => ~Parsed(projects[name].files[file])
  /\ WorkspaceChangedOver =>
       /\ last.passes \in OrderedPasses
       /\ Range(last.requested) \cap last.change.deleted = {}

\* deletion, listFiles, listTests: the parsed File of a deleted and changed
\* path is removed, reported again by the listFiles pass of the call and, new
\* and unparsed, not asked for; the other changed File, parsed, is
C30_Witness ==
  /\ SuspendedIn("listTests")
  /\ calls[1][1].passes = <<"listFiles", "listTests">>
  /\ calls[1][1].change.deleted = {FileY}
  /\ calls[1][1].change.changed = {FileX, FileY}
  /\ <<"A", FileY>> \in calls[1][1].removedParsed
  /\ "A" \in DOMAIN projects /\ FileY \in DOMAIN projects["A"].files
  /\ ~Parsed(projects["A"].files[FileY])
  /\ calls[1][2].files = <<FileX>>

\* a parsed File whose path is deleted and changed: nothing is asked for
C30_WitnessDeleted ==
  /\ WorkspaceChangedOver
  /\ last.change.deleted = {FileX} /\ last.change.changed = {FileX}
  /\ "A" \in DOMAIN last.pre /\ FileX \in DOMAIN last.pre["A"].files
  /\ Parsed(last.pre["A"].files[FileX])
  /\ last.passes = <<>>
  /\ last.requested = <<>>

\* C31: workspaceChanged discards what its nested passes return.  A listFiles
\* pass of the call that ends with a top-level error changes nothing and
\* fires nothing; the call then goes on with the changed paths over the model
\* as the removal left it, asks listTests for the parsed Files among them when
\* there are any and is over otherwise; when it is over it has fired its own
\* notification exactly when it removed a File, and its result is undefined,
\* neither the discovery error nor the parse errors of listTests.
C31_NestedOutcomesAreDiscarded ==
  [][/\ (SuspendedIn("listFiles") /\ Len(calls'[1]) = 1 /\
         calls'[1][1].returned = <<"error">>) =>
          /\ calls'[1][1].op = "workspaceChanged" /\ calls'[1][1].pc = "listFiles"
          /\ calls'[1][1].nestedFired = 0
          /\ projects' = projects
          /\ testIdAttributeName' = testIdAttributeName
     /\ (Len(calls[1]) = 1 /\ calls[1][1].op = "workspaceChanged" /\
         calls[1][1].pc = "listFiles" /\ calls[1][1].returned = <<"error">>) =>
          /\ projects' = projects
          /\ IF ParsedAmong(projects, calls[1][1].change.changed) # {}
               THEN /\ Len(calls'[1]) = 2
                    /\ calls'[1][1].pc = "listTests"
                    /\ calls'[1][2].op = "listTests" /\ calls'[1][2].pc = "response"
                    /\ Range(calls'[1][2].files) =
                         ParsedAmong(projects, calls[1][1].change.changed)
               ELSE /\ calls'[1] = <<>>
                    /\ last'.op = "workspaceChanged"
                    /\ last'.passes = <<"listFiles">>
     /\ (last'.op = "workspaceChanged" /\ last'.passes # <<>> /\
         last'.passes[1] = "listFiles" /\ last'.returned[1] = "error") =>
          /\ calls'[1] = <<>>
          /\ last'.ret = "undefined"
          /\ last'.ownFired = (IF last'.removed # {} THEN 1 ELSE 0)
          /\ last'.fired = last'.nestedFired + last'.ownFired]_vars

\* a call that removes a File, whose listFiles pass fails and whose listTests
\* pass returns parse errors, is over: one notification of its own, no result
C31_Witness ==
  /\ WorkspaceChangedOver
  /\ last.passes = <<"listFiles", "listTests">>
  /\ last.returned = <<"error", <<"parse error">>>>
  /\ last.removed # {}
  /\ last.requested # <<>>
  /\ last.ownFired = 1
  /\ last.ret = "undefined"
  /\ calls[1] = <<>>

\* the listFiles pass fails and no changed path has a parsed File: no
\* listTests pass, and nothing was removed, so no notification at all
C31_WitnessQuiet ==
  /\ WorkspaceChangedOver
  /\ last.passes = <<"listFiles">>
  /\ last.returned = <<"error">>
  /\ last.removed = {}
  /\ last.fired = 0
  /\ last.ret = "undefined"

====
